---- MODULE Spec2Model ----
(***************************************************************************)
(* MandelbrotGL (src/src/main.cpp): the GLobject handle wrapper, the four  *)
(* resource factories, read_file and main.                                 *)
(*                                                                         *)
(* Three specifications share the state:                                   *)
(*   SpecObj   GLobject alone, driven by arbitrary constructions, moves,   *)
(*             move-assignments and destructions;                          *)
(*   SpecKeys  the SDL_KEYDOWN handler alone, on the view state, with the  *)
(*             arithmetic of float (binary32) and of unsigned (32 bits);   *)
(*   Spec      main(), from SDL_Init to its return.                        *)
(*                                                                         *)
(* Two properties of the build are not fixed by the source and are drawn   *)
(* in Init:                                                                *)
(*   stdlib   what a moved-from std::function holds ("valid but            *)
(*            unspecified"): no target, or still the old target;           *)
(*   nrvo     for each factory, whether its `return <local>;` constructs   *)
(*            the local in the caller's object (copy elision, permitted    *)
(*            and not required) or move-constructs the result and then     *)
(*            destroys the local.                                          *)
(***************************************************************************)
EXTENDS Integers, Sequences, FiniteSets, TLC

VARIABLES
    objs,      \* the GLobjects: slot -> [st, index, deleter]
    trace,     \* the calls made to SDL, GL and the file system: <<name, value>>
    owned,     \* the <<deleter, handle>> pairs GLobject constructors were given
    stdlib,    \* build: what std::move leaves in a std::function
    nrvo,      \* build: factory -> whether its return is elided
    pc,        \* the position in main
    ex,        \* what() of the exception thrown, "" if none
    running,   \* main's `running`
    frames,    \* loop iterations completed
    polls,     \* events delivered by SDL_PollEvent
    cerr,      \* the lines written to std::cerr
    exitCode,  \* the process exit status, -1 while it runs
    view,      \* main's max_iterations, scale, x and y
    event,     \* main's SDL_Event: the event SDL_PollEvent delivered last
    sent,      \* the uniforms of the shader program as the loop set them last
    hist       \* history of the SpecObj and SpecKeys drivers

vars == <<objs, trace, owned, stdlib, nrvo, pc, ex, running, frames, polls,
          cerr, exitCode, view, event, sent, hist>>

(***************************************************************************)
(* Bounds of the model.                                                    *)
(***************************************************************************)
\* GLobjects of the SpecObj driver
MaxObjs == 3
\* largest handle the SpecObj driver gives a GLobject (0 is the null handle)
MaxHandle == 2
\* loop iterations of main that the model follows
MaxFrames == 2
\* events SDL_PollEvent delivers over a run
MaxPolls == 1
\* key-downs SpecKeys handles after its start
MaxKeys == 1
\* key-downs of the one key held down before SpecKeys starts
MaxPresses == 1000

(***************************************************************************)
(* GLobject                                                                *)
(***************************************************************************)
\* the four factories
Factories == {"create_rectangle_buffer", "create_rectangle_vertex_array_object",
              "create_shader", "create_shader_program"}

\* a std::function without a target; calling it throws std::bad_function_call
NoTarget == "no target"

\* the deleters the factories pass (the lambdas of lines 65, 99, 124, 151)
Deleters == {"glDeleteBuffers", "glDeleteVertexArrays", "glDeleteShader",
             "glDeleteProgram"}

\* storage that holds no GLobject (before construction)
Unborn == [st |-> "unborn", index |-> 0, deleter |-> NoTarget]

\* GLobject(GLuint index, deleter_type deleter)
GLobject(index, deleter) == [st |-> "alive", index |-> index, deleter |-> deleter]

\* the state std::move leaves a std::function in
MovedFromFunction(f) == IF stdlib = "empties" THEN NoTarget ELSE f

\* GLobject(GLobject&& globject): the new object
MoveCtorDst(globject) == GLobject(globject.index, globject.deleter)

\* faulty variant: the source keeps its handle and its deleter, as after a copy
MoveCtorSrc_copies(globject) == globject

\* GLobject(GLobject&& globject): what is left of globject
MoveCtorSrc(globject) ==
    [globject EXCEPT !.index = 0, !.deleter = MovedFromFunction(globject.deleter)]

\* operator=(GLobject&& globject): *this afterwards
MoveAssignDst(this, globject) ==
    [this EXCEPT !.index = globject.index, !.deleter = globject.deleter]

\* operator=(GLobject&& globject): what is left of globject
MoveAssignSrc(globject) ==
    [globject EXCEPT !.deleter = MovedFromFunction(globject.deleter)]

\* operator GLuint()
Raw(globject) == globject.index

\* A machine state the object operations act on: the objects, the calls made
\* to the outside so far, and whether std::terminate was called.
State(o, t, c) == [objs |-> o, trace |-> t, crashed |-> c]

Here == State(objs, trace, FALSE)

\* ~GLobject() on the object in slot s: deleter(index).  An exception leaving
\* the (implicitly noexcept) destructor calls std::terminate.  Storage that
\* holds no live object is skipped (a local not yet constructed).
Dtor(s, state) ==
    IF state.crashed \/ state.objs[s].st # "alive" THEN state
    ELSE IF state.objs[s].deleter = NoTarget
         THEN [state EXCEPT !.crashed = TRUE]
         ELSE [state EXCEPT
                 !.objs[s].st = "dead",
                 !.trace = Append(@, <<state.objs[s].deleter, state.objs[s].index>>)]

\* destructors of the slots of `slots`, in that order
RECURSIVE DestroySeq(_, _)
DestroySeq(slots, state) ==
    IF slots = <<>> THEN state
    ELSE DestroySeq(Tail(slots), Dtor(Head(slots), state))

\* GLobject dst{std::move(src)}
MoveConstruct(dst, src, state) ==
    [state EXCEPT !.objs[dst] = MoveCtorDst(state.objs[src]),
                  !.objs[src] = MoveCtorSrc(state.objs[src])]

\* dst = std::move(src)
MoveAssign(dst, src, state) ==
    IF dst = src THEN state
    ELSE [state EXCEPT !.objs[dst] = MoveAssignDst(state.objs[dst], state.objs[src]),
                       !.objs[src] = MoveAssignSrc(state.objs[src])]

\* number of times the call e was made
Count(t, e) == Cardinality({i \in DOMAIN t : t[i] = e})


(***************************************************************************)
(* float: IEEE 754 binary32, round to nearest, ties to even.               *)
(*                                                                         *)
(* A float is [cls, sign, m, e].  A finite one is (-1)^sign * m * 2^e with *)
(* 0 <= m < 2^24 and e >= -149; it is kept canonical: m >= 2^23 (normal),  *)
(* or e = -149 (subnormal, and zero when m = 0).  All the arithmetic below *)
(* is on integers under 2^31: a wider value is held in two 24-bit limbs.   *)
(***************************************************************************)
\* bits of the significand
Precision == 24
\* the exponent of the unit in the last place of a subnormal
MinExp == -149
\* the exponent of the unit in the last place of the largest finite float
MaxExp == 104

\* 2^24, the limb of the wide integers
Limb == 2^Precision

NaN == [cls |-> "nan", sign |-> 0, m |-> 0, e |-> 0]

Inf(sign) == [cls |-> "inf", sign |-> sign, m |-> 0, e |-> 0]

Finite(sign, m, e) == [cls |-> "finite", sign |-> sign, m |-> m, e |-> e]

Zero(sign) == Finite(sign, 0, MinExp)

IsZero(a) == a.cls = "finite" /\ a.m = 0

Neg(a) == IF a.cls = "nan" THEN a ELSE [a EXCEPT !.sign = 1 - a.sign]

Xor(s, t) == IF s = t THEN 0 ELSE 1

RECURSIVE BitLen(_)
\* the number of bits of n: 0 for 0, 1 + floor(log2 n) otherwise
BitLen(n) == IF n = 0 THEN 0 ELSE 1 + BitLen(n \div 2)

\* how the discarded part compares with half a unit of the kept part, for
\* the wide integer hi * 2^24 + lo (+ something in (0, 1) when sticky) of
\* which the low k bits are discarded: "below", "tie" or "above"
Discarded(hi, lo, sticky, k) ==
    IF k <= 0 THEN "below"
    ELSE IF k <= Precision
    THEN LET r == lo % (2^k)
             half == 2^(k - 1)
         IN  IF r > half \/ (r = half /\ sticky) THEN "above"
             ELSE IF r = half THEN "tie" ELSE "below"
    ELSE IF k <= 2 * Precision + 2
    THEN LET rh == hi % (2^(k - Precision))
             halfh == 2^(k - Precision - 1)
         IN  IF rh > halfh \/ (rh = halfh /\ (lo > 0 \/ sticky)) THEN "above"
             ELSE IF rh = halfh THEN "tie" ELSE "below"
    ELSE "below"

\* the wide integer hi * 2^24 + lo shifted right by k bits (left when k < 0)
Kept(hi, lo, k) ==
    IF k <= 0 THEN lo * (2^(0 - k))
    ELSE IF k <= Precision THEN hi * (2^(Precision - k)) + (lo \div (2^k))
    ELSE IF k <= 2 * Precision + 2 THEN hi \div (2^(k - Precision))
    ELSE 0

\* The float nearest to (-1)^sign * (hi * 2^24 + lo [+ a fraction]) * 2^e,
\* ties to even, for hi < 2^26 and lo < 2^24: the one rounding every
\* operation ends with.  It overflows to infinity and underflows gradually.
Round(sign, hi, lo, sticky, e) ==
    LET len == IF hi > 0 THEN Precision + BitLen(hi) ELSE BitLen(lo)
        fit == len - Precision
        k == IF MinExp - e > fit THEN MinExp - e ELSE fit
        q == Kept(hi, lo, k)
        d == Discarded(hi, lo, sticky, k)
        up == d = "above" \/ (d = "tie" /\ q % 2 = 1)
        q1 == IF up THEN q + 1 ELSE q
        m == IF q1 = Limb THEN Limb \div 2 ELSE q1
        e1 == IF q1 = Limb THEN e + k + 1 ELSE e + k
    IN  IF m = 0 THEN Zero(sign)
        ELSE IF e1 > MaxExp THEN Inf(sign)
        ELSE Finite(sign, m, e1)

\* an integer literal 0 <= n < 2^24 as a float
FromInt(n) == Round(0, 0, n, FALSE, 0)

\* a * b
Mul(a, b) ==
    IF a.cls = "nan" \/ b.cls = "nan" THEN NaN
    ELSE IF (a.cls = "inf" /\ IsZero(b)) \/ (IsZero(a) /\ b.cls = "inf") THEN NaN
    ELSE IF a.cls = "inf" \/ b.cls = "inf" THEN Inf(Xor(a.sign, b.sign))
    ELSE LET ah == a.m \div 4096
             al == a.m % 4096
             bh == b.m \div 4096
             bl == b.m % 4096
             mid == ah * bl + al * bh
             t == al * bl + (mid % 4096) * 4096
             lo == t % Limb
             hi == ah * bh + (mid \div 4096) + (t \div Limb)
         IN  Round(Xor(a.sign, b.sign), hi, lo, FALSE, a.e + b.e)

\* |a| >= |b| for finite canonical a and b
MagnitudeGeq(a, b) == a.e > b.e \/ (a.e = b.e /\ a.m >= b.m)

\* big + small (same = TRUE) or big - small, for finite nonzero operands
\* with |big| >= |small|; the result has the sign of big
AddMagnitudes(big, small, same) ==
    LET d == big.e - small.e
    IN  IF d > Precision + 1
        THEN \* small is under a quarter of big's unit: it only tips the rounding
             LET n == IF same THEN 4 * big.m ELSE 4 * big.m - 1
             IN  Round(big.sign, n \div Limb, n % Limb, TRUE, big.e - 2)
        ELSE LET ahi == IF d > Precision THEN 2 * big.m
                        ELSE big.m \div (2^(Precision - d))
                 alo == IF d > Precision THEN 0
                        ELSE (big.m % (2^(Precision - d))) * (2^d)
                 t == IF same THEN alo + small.m ELSE alo - small.m
                 lo == t % Limb
                 hi == IF t < 0 THEN ahi - 1 ELSE ahi + (t \div Limb)
             IN  IF hi = 0 /\ lo = 0 THEN Zero(0)
                 ELSE Round(big.sign, hi, lo, FALSE, small.e)

\* a + b
Add(a, b) ==
    IF a.cls = "nan" \/ b.cls = "nan" THEN NaN
    ELSE IF a.cls = "inf" /\ b.cls = "inf"
    THEN IF a.sign = b.sign THEN a ELSE NaN
    ELSE IF a.cls = "inf" THEN a
    ELSE IF b.cls = "inf" THEN b
    ELSE IF IsZero(a) /\ IsZero(b) THEN Zero(IF a.sign = b.sign THEN a.sign ELSE 0)
    ELSE IF IsZero(a) THEN b
    ELSE IF IsZero(b) THEN a
    ELSE IF MagnitudeGeq(a, b) THEN AddMagnitudes(a, b, a.sign = b.sign)
    ELSE AddMagnitudes(b, a, a.sign = b.sign)

\* a - b
Sub(a, b) == Add(a, Neg(b))

RECURSIVE LongDiv(_, _, _, _)
\* n more quotient bits of r / d, appended to q: <<quotient, remainder>>
LongDiv(r, d, q, n) ==
    IF n = 0 THEN <<q, r>>
    ELSE LET bit == IF 2 * r >= d THEN 1 ELSE 0
         IN  LongDiv(2 * r - bit * d, d, 2 * q + bit, n - 1)

\* a / b
Div(a, b) ==
    IF a.cls = "nan" \/ b.cls = "nan" THEN NaN
    ELSE IF (a.cls = "inf" /\ b.cls = "inf") \/ (IsZero(a) /\ IsZero(b)) THEN NaN
    ELSE IF a.cls = "inf" \/ IsZero(b) THEN Inf(Xor(a.sign, b.sign))
    ELSE IF b.cls = "inf" \/ IsZero(a) THEN Zero(Xor(a.sign, b.sign))
    ELSE LET na == Precision - BitLen(a.m)
             nb == Precision - BitLen(b.m)
             ma == a.m * (2^na)
             mb == b.m * (2^nb)
             first == IF ma >= mb THEN 1 ELSE 0
             qr == LongDiv(ma - first * mb, mb, first, Precision + 2)
         IN  Round(Xor(a.sign, b.sign), qr[1] \div Limb, qr[1] % Limb, qr[2] # 0,
                   (a.e - na) - (b.e - nb) - (Precision + 2))

\* the literals of main
Literal_0_1F == Div(FromInt(1), FromInt(10))

Literal_1_0F == FromInt(1)

Literal_2_0F == FromInt(2)

Literal_0_0F == FromInt(0)

\* a > 0: false of NaN, of both zeros and of everything negative
IsPositive(a) == a.cls \in {"finite", "inf"} /\ a.sign = 0 /\ ~IsZero(a)

(***************************************************************************)
(* unsigned: 32 bits, held in two 16-bit halves, hi * 2^16 + lo.           *)
(***************************************************************************)
Half == 2^16

Unsigned(hi, lo) == [hi |-> hi, lo |-> lo]

\* 4294967295
UINT_MAX == Unsigned(Half - 1, Half - 1)

\* ++u, modulo 2^32
Increment(u) ==
    IF u.lo < Half - 1 THEN Unsigned(u.hi, u.lo + 1)
    ELSE Unsigned((u.hi + 1) % Half, 0)

\* --u, modulo 2^32
Decrement(u) ==
    IF u.lo > 0 THEN Unsigned(u.hi, u.lo - 1)
    ELSE Unsigned((u.hi - 1) % Half, Half - 1)

\* u > 0
GreaterThanZero(u) == u.hi > 0 \/ u.lo > 0

(***************************************************************************)
(* The view state of main and its SDL_KEYDOWN handler.                     *)
(***************************************************************************)
WINDOW_WIDTH == 800

WINDOW_HEIGHT == 600

\* max_iterations, scale, x and y as main declares them
InitialView ==
    [max_iterations |-> Unsigned(0, 30), scale |-> Literal_1_0F,
     x |-> Literal_0_0F, y |-> Literal_0_0F]

\* the keys the handler tests for
DefinedKeys ==
    {"SDL_SCANCODE_W", "SDL_SCANCODE_S", "SDL_SCANCODE_A", "SDL_SCANCODE_D",
     "SDL_SCANCODE_Z", "SDL_SCANCODE_X", "SDL_SCANCODE_R", "SDL_SCANCODE_E"}

\* every key: the eight and one that stands for all the others
Scancodes == DefinedKeys \cup {"SDL_SCANCODE_SPACE"}

\* faulty variant: A and D pan the wrong way
KeyDown_mirrored(v, scancode) ==
    LET move_delta == Div(Literal_0_1F, v.scale)
    IN  [v EXCEPT !.x = IF scancode = "SDL_SCANCODE_A" THEN Add(v.x, move_delta)
                        ELSE IF scancode = "SDL_SCANCODE_D" THEN Sub(v.x, move_delta)
                        ELSE v.x]

\* faulty variant: the last chain lacks its test for E, so the key-down of any
\* key but R decrements
KeyDown_dangling(v, scancode) ==
    [v EXCEPT !.max_iterations =
        IF scancode = "SDL_SCANCODE_R" THEN Increment(v.max_iterations)
        ELSE IF GreaterThanZero(v.max_iterations) THEN Decrement(v.max_iterations)
        ELSE v.max_iterations]

\* faulty variant: E decrements without the test for zero
KeyDown_unguarded(v, scancode) ==
    [v EXCEPT !.max_iterations =
        IF scancode = "SDL_SCANCODE_R" THEN Increment(v.max_iterations)
        ELSE IF scancode = "SDL_SCANCODE_E" THEN Decrement(v.max_iterations)
        ELSE v.max_iterations]

\* case SDL_KEYDOWN: the view after the key-down of scancode in the view v.
\* Every operation rounds to float; the four if / else-if chains run in turn.
KeyDown(v, scancode) ==
    LET move_delta == Div(Literal_0_1F, v.scale)
    IN  [y |-> IF scancode = "SDL_SCANCODE_W" THEN Add(v.y, move_delta)
               ELSE IF scancode = "SDL_SCANCODE_S" THEN Sub(v.y, move_delta)
               ELSE v.y,
         x |-> IF scancode = "SDL_SCANCODE_A" THEN Sub(v.x, move_delta)
               ELSE IF scancode = "SDL_SCANCODE_D" THEN Add(v.x, move_delta)
               ELSE v.x,
         scale |-> IF scancode = "SDL_SCANCODE_Z"
                   THEN Add(v.scale, Mul(Literal_0_1F, v.scale))
                   ELSE IF scancode = "SDL_SCANCODE_X"
                   THEN Sub(v.scale, Mul(Literal_0_1F, v.scale))
                   ELSE v.scale,
         max_iterations |->
             IF scancode = "SDL_SCANCODE_R" THEN Increment(v.max_iterations)
             ELSE IF scancode = "SDL_SCANCODE_E" /\ GreaterThanZero(v.max_iterations)
             THEN Decrement(v.max_iterations)
             ELSE v.max_iterations]

\* the SDL_Event of main before SDL_PollEvent has filled it
NoEvent == [type |-> "none", scancode |-> "none"]

\* the event types main tells apart (lines 221-251); "other" is every type
\* the switch has no case for
EventTypes == {"SDL_KEYDOWN", "SDL_QUIT", "other"}

\* the events SDL_PollEvent delivers; key.keysym.scancode is only read of a
\* key-down
Events ==
    {[type |-> "SDL_KEYDOWN", scancode |-> k] : k \in Scancodes}
    \cup {[type |-> t, scancode |-> "none"] : t \in EventTypes \ {"SDL_KEYDOWN"}}

\* the switch on event.type, as far as the view goes
HandleEvent(v, e) == IF e.type = "SDL_KEYDOWN" THEN KeyDown(v, e.scancode) ELSE v

\* the values the loop gives the uniforms at locations 0 to 4
Uniforms(v) ==
    [width |-> FromInt(WINDOW_WIDTH),
     height |-> FromInt(WINDOW_HEIGHT),
     bounds_x |-> <<Add(Div(Neg(Literal_2_0F), v.scale), v.x),
                    Add(Div(Literal_1_0F, v.scale), v.x)>>,
     bounds_y |-> <<Add(Div(Neg(Literal_1_0F), v.scale), v.y),
                    Add(Div(Literal_1_0F, v.scale), v.y)>>,
     max_iterations |-> v.max_iterations]

\* the uniforms of a program none was ever set in
NoUniforms == [set |-> FALSE]

(***************************************************************************)
(* SpecObj: GLobject driven by arbitrary client code.                      *)
(***************************************************************************)
ObjSlots == 1..MaxObjs

\* history of the driver: the last operation with the operands' values before
\* it, and whether a move-assignment between two distinct objects ever ran
NoHist ==
    [op |-> "none", dst |-> 0, src |-> 0, dstIndex |-> 0, dstDeleter |-> NoTarget,
     srcIndex |-> 0, srcDeleter |-> NoTarget, assigned |-> FALSE]

Record(op, dst, src) ==
    [op |-> op, dst |-> dst, src |-> src,
     dstIndex |-> objs[dst].index, dstDeleter |-> objs[dst].deleter,
     srcIndex |-> objs[src].index, srcDeleter |-> objs[src].deleter,
     assigned |-> hist.assigned \/ (op = "assign" /\ dst # src)]

\* std::terminate: the process ends by abort()
Aborted == pc = "aborted"

\* the exit status of a process killed by SIGABRT, as a shell reports it
SIGABRT_status == 128 + 6

\* the outcome of an operation of the driver
ObjCommit(state) ==
    /\ objs' = state.objs
    /\ trace' = state.trace
    /\ pc' = IF state.crashed THEN "aborted" ELSE pc
    /\ exitCode' = IF state.crashed THEN SIGABRT_status ELSE exitCode

InitObj ==
    /\ objs = [s \in ObjSlots |-> Unborn]
    /\ trace = <<>>
    /\ owned = {}
    /\ stdlib \in {"empties", "keeps"}
    /\ nrvo = [f \in Factories |-> TRUE]
    /\ pc = "obj"
    /\ ex = ""
    /\ running = FALSE
    /\ frames = 0
    /\ polls = 0
    /\ cerr = <<>>
    /\ exitCode = -1
    /\ view = InitialView
    /\ event = NoEvent
    /\ sent = NoUniforms
    /\ hist = NoHist

\* GLobject o{h, d}, h a handle no GLobject was given before
ObjConstruct ==
    \E o \in ObjSlots, h \in 1..MaxHandle, d \in Deleters :
        /\ pc = "obj"
        /\ objs[o].st = "unborn"
        /\ <<d, h>> \notin owned
        /\ hist' = Record("construct", o, o)
        /\ owned' = owned \cup {<<d, h>>}
        /\ ObjCommit([Here EXCEPT !.objs[o] = GLobject(h, d)])
        /\ UNCHANGED <<stdlib, nrvo, view, event, sent, ex, running, frames, polls,
                       cerr>>

\* GLobject dst{std::move(src)}
ObjMoveConstruct ==
    \E dst \in ObjSlots, src \in ObjSlots :
        /\ pc = "obj"
        /\ objs[dst].st = "unborn"
        /\ objs[src].st = "alive"
        /\ hist' = Record("move_construct", dst, src)
        /\ ObjCommit(MoveConstruct(dst, src, Here))
        /\ UNCHANGED <<owned, stdlib, nrvo, view, event, sent, ex, running, frames,
                       polls, cerr>>

\* dst = std::move(src), dst = src included
ObjMoveAssign ==
    \E dst \in ObjSlots, src \in ObjSlots :
        /\ pc = "obj"
        /\ objs[dst].st = "alive"
        /\ objs[src].st = "alive"
        /\ hist' = Record("assign", dst, src)
        /\ ObjCommit(MoveAssign(dst, src, Here))
        /\ UNCHANGED <<owned, stdlib, nrvo, view, event, sent, ex, running, frames,
                       polls, cerr>>

\* the end of o's lifetime
ObjDestroy ==
    \E o \in ObjSlots :
        /\ pc = "obj"
        /\ objs[o].st = "alive"
        /\ hist' = Record("destroy", o, o)
        /\ ObjCommit(Dtor(o, Here))
        /\ UNCHANGED <<owned, stdlib, nrvo, view, event, sent, ex, running, frames,
                       polls, cerr>>

NextObj == ObjConstruct \/ ObjMoveConstruct \/ ObjMoveAssign \/ ObjDestroy

SpecObj == InitObj /\ [][NextObj]_vars

\* every object that was constructed has been destroyed
AllDestroyed ==
    /\ \E s \in DOMAIN objs : objs[s].st = "dead"
    /\ \A s \in DOMAIN objs : objs[s].st # "alive"

(***************************************************************************)
(* C1: for every GLobject created from a handle h and a release function,  *)
(* over any sequence of move-constructions followed by the destruction of  *)
(* every object involved, release is invoked exactly once with h, and      *)
(* destroying a moved-from object neither releases h nor fails.            *)
(* Stated of the runs without move-assignment: no destruction ends in      *)
(* std::terminate, no owned handle is released twice, and once every       *)
(* object is destroyed every owned handle was released exactly once.       *)
(***************************************************************************)
C1_ReleasedOnceAcrossMoves ==
    ~hist.assigned =>
        /\ ~Aborted
        /\ \A e \in owned : Count(trace, e) <= 1
        /\ AllDestroyed => \A e \in owned : Count(trace, e) = 1

(***************************************************************************)
(* C2: move-assigning b (owning hb) into a different object a that owns ha *)
(* invokes a's release function on ha exactly once at the reassignment,    *)
(* and after both are destroyed ha and hb were each released exactly once. *)
(***************************************************************************)
C2_AssignReleasesOldHandle ==
    /\ (/\ hist.op = "assign"
        /\ hist.dst # hist.src
        /\ <<hist.dstDeleter, hist.dstIndex>> \in owned
        /\ <<hist.srcDeleter, hist.srcIndex>> \in owned)
       => Count(trace, <<hist.dstDeleter, hist.dstIndex>>) = 1
    /\ (hist.assigned /\ AllDestroyed)
       => (~Aborted /\ \A e \in owned : Count(trace, e) = 1)

(***************************************************************************)
(* C3: after a move from a distinct object (move-construction or           *)
(* move-assignment) the destination exposes the source's former handle and *)
(* the source exposes 0; a self-move-assignment leaves the handle and the  *)
(* release function unchanged.                                             *)
(***************************************************************************)
C3_MoveTransfersAndNullsSource ==
    /\ (hist.op \in {"move_construct", "assign"} /\ hist.dst # hist.src)
       => (/\ Raw(objs[hist.dst]) = hist.srcIndex
           /\ Raw(objs[hist.src]) = 0)
    /\ (hist.op = "assign" /\ hist.dst = hist.src)
       => (/\ Raw(objs[hist.dst]) = hist.dstIndex
           /\ objs[hist.dst].deleter = hist.dstDeleter)


(***************************************************************************)
(* SpecKeys: the SDL_KEYDOWN handler alone.  One key is held down for a    *)
(* while (key repeat delivers a key-down after another), then any keys     *)
(* are pressed.                                                            *)
(***************************************************************************)
\* The views SpecKeys starts from: the initial one, and the one that ends the
\* climb of max_iterations (R adds one each time, so 4294967265 key-downs of
\* it lead from 30 to UINT_MAX: more than a behaviour of the model holds).
KeyStarts == {InitialView, [InitialView EXCEPT !.max_iterations = UINT_MAX]}

\* frames counts the key-downs of the key held down, polls those after it
InitKeys ==
    /\ objs = [s \in ObjSlots |-> Unborn]
    /\ trace = <<>>
    /\ owned = {}
    /\ stdlib = "empties"
    /\ nrvo = [f \in Factories |-> TRUE]
    /\ pc = "SDL_PollEvent"
    /\ ex = ""
    /\ running = TRUE
    /\ frames = 0
    /\ polls = 0
    /\ cerr = <<>>
    /\ exitCode = -1
    /\ view \in KeyStarts
    /\ event = NoEvent
    /\ sent = NoUniforms
    /\ hist = view

\* a key-down handled; hist keeps the view before it
KeyDownEvent(e) ==
    /\ event' = e
    /\ view' = HandleEvent(view, e)
    /\ hist' = view
    /\ UNCHANGED <<objs, trace, owned, stdlib, nrvo, pc, ex, running, cerr,
                   exitCode, sent>>

\* one more key-down of the key held down
KeyHeld ==
    /\ polls = 0
    /\ frames < MaxPresses
    /\ \E k \in DefinedKeys :
         /\ frames > 0 => event.scancode = k
         /\ KeyDownEvent([type |-> "SDL_KEYDOWN", scancode |-> k])
    /\ frames' = frames + 1
    /\ polls' = polls

\* a key-down of any key
KeyPressed ==
    /\ polls < MaxKeys
    /\ \E k \in Scancodes : KeyDownEvent([type |-> "SDL_KEYDOWN", scancode |-> k])
    /\ polls' = polls + 1
    /\ frames' = frames

NextKeys == KeyHeld \/ KeyPressed

SpecKeys == InitKeys /\ [][NextKeys]_vars


(***************************************************************************)
(* Spec: main().                                                           *)
(***************************************************************************)
\* the GLobjects of main's try block, of create_shader_program and of the
\* factories (the local each factory returns)
MainSlots ==
    {"rectangle_buffer", "rectangle_vertex_array_object", "shader_program",
     "vertex_shader", "fragment_shader",
     "buffer", "vertex_array_object", "shader", "csp_shader_program"}

\* The local a factory returns.  With the return elided it is constructed in
\* the object the caller initialises; otherwise it is an object of its own.
crb_buffer == IF nrvo["create_rectangle_buffer"] THEN "rectangle_buffer" ELSE "buffer"

crvao_vertex_array_object ==
    IF nrvo["create_rectangle_vertex_array_object"]
    THEN "rectangle_vertex_array_object" ELSE "vertex_array_object"

cs_shader(dest) == IF nrvo["create_shader"] THEN dest ELSE "shader"

csp_shader_program ==
    IF nrvo["create_shader_program"] THEN "shader_program" ELSE "csp_shader_program"

\* faulty variant: the locals are destroyed in the order of their declaration
MainLocals_forward ==
    <<"rectangle_buffer", "rectangle_vertex_array_object", "shader_program">>

\* faulty variant: rectangle_buffer is not destroyed
MainLocals_leak == <<"shader_program", "rectangle_vertex_array_object">>

\* main's try block: its GLobjects, last declared first
MainLocals == <<"shader_program", "rectangle_vertex_array_object", "rectangle_buffer">>

\* faulty variant: vertex_shader is not destroyed
CspShaders_leak == <<"fragment_shader">>

\* create_shader_program: its two shader objects, last declared first
CspShaders == <<"fragment_shader", "vertex_shader">>

\* faulty variant: the program object is not destroyed
CspUnwind_leak == CspShaders \o MainLocals

\* what stack unwinding destroys when an exception leaves create_shader_program
CspUnwind == CspShaders \o <<csp_shader_program>> \o MainLocals

\* a call to the outside and the value it yields or is given
Call(name, value, state) == [state EXCEPT !.trace = Append(@, <<name, value>>)]

\* the step's effect on the objects and the trace; std::terminate ends the run
Commit(state, next) ==
    /\ objs' = state.objs
    /\ trace' = state.trace
    /\ pc' = IF state.crashed THEN "aborted" ELSE next
    /\ exitCode' = IF state.crashed THEN SIGABRT_status ELSE exitCode

\* throw std::runtime_error{what}: the locals of `unwind` are destroyed and
\* control reaches the handler of line 273
Throw(what, unwind, state) ==
    /\ Commit(DestroySeq(unwind, state), "catch")
    /\ ex' = what

\* `return local;` of `factory`, whose other locals are `others` (last
\* declared first): elided, or the result move-constructed from the local;
\* then the locals are destroyed.
Return(factory, dest, local, others, state) ==
    IF nrvo[factory] THEN DestroySeq(others, state)
    ELSE DestroySeq(others \o <<local>>, MoveConstruct(dest, local, state))

\* A name the API has not handed out for the kind of object `deleter`
\* releases: names are taken in increasing order, starting from 1.
UnusedName(deleter) == Cardinality({e \in owned : e[1] = deleter}) + 1

\* faulty variant: the handle is not compared with 0
Allocate_unchecked(api, deleter, local, what, unwind, next) ==
    \E h \in {0, UnusedName(deleter)} :
        /\ owned' = owned \cup {<<deleter, h>>}
        /\ Commit([Call(api, h, Here) EXCEPT !.objs[local] = GLobject(h, deleter)], next)
        /\ ex' = ex

\* The head of each factory: the lambda that asks the API for a handle and
\* throws on 0, and the GLobject constructed from its result and the deleter.
\* The API yields 0 (no object) or a name not in use.
Allocate(api, deleter, local, what, unwind, next) ==
    \E h \in {0, UnusedName(deleter)} :
        /\ IF h = 0
           THEN /\ Throw(what, unwind, Call(api, h, Here))
                /\ owned' = owned
           ELSE /\ owned' = owned \cup {<<deleter, h>>}
                /\ Commit([Call(api, h, Here) EXCEPT !.objs[local] = GLobject(h, deleter)],
                          next)
                /\ ex' = ex

Init ==
    /\ objs = [s \in MainSlots |-> Unborn]
    /\ trace = <<>>
    /\ owned = {}
    /\ stdlib \in {"empties", "keeps"}
    /\ nrvo \in [Factories -> BOOLEAN]
    /\ pc = "SDL_Init"
    /\ ex = ""
    /\ running = FALSE
    /\ frames = 0
    /\ polls = 0
    /\ cerr = <<>>
    /\ exitCode = -1
    /\ view = InitialView
    /\ event = NoEvent
    /\ sent = NoUniforms
    /\ hist = NoHist

\* line 184, and 291 when it fails
SDL_Init ==
    /\ pc = "SDL_Init"
    /\ \E r \in {-1, 0} :
        /\ trace' = Append(trace, <<"SDL_Init", r>>)
        /\ IF r >= 0
           THEN pc' = "SDL_CreateWindow" /\ cerr' = cerr
           ELSE pc' = "return" /\ cerr' = Append(cerr, "SDL2 initialization error")
    /\ UNCHANGED <<objs, owned, stdlib, nrvo, view, event, sent, ex, running,
                   frames, polls, exitCode, hist>>

\* faulty variant: the window is destroyed after its creation failed
SDL_CreateWindow_destroys ==
    /\ pc = "SDL_CreateWindow"
    /\ \E window \in {0, 1} :
        /\ trace' = Append(trace, <<"SDL_CreateWindow", window>>)
        /\ IF window # 0
           THEN pc' = "SDL_GL_CreateContext" /\ cerr' = cerr
           ELSE pc' = "SDL_DestroyWindow" /\ cerr' = Append(cerr, "SDL_Window creation error")
    /\ UNCHANGED <<objs, owned, stdlib, nrvo, view, event, sent, ex, running,
                   frames, polls, exitCode, hist>>

\* lines 191-193, and 286 when it fails; 1 stands for a non-null window
SDL_CreateWindow ==
    /\ pc = "SDL_CreateWindow"
    /\ \E window \in {0, 1} :
        /\ trace' = Append(trace, <<"SDL_CreateWindow", window>>)
        /\ IF window # 0
           THEN pc' = "SDL_GL_CreateContext" /\ cerr' = cerr
           ELSE pc' = "SDL_Quit" /\ cerr' = Append(cerr, "SDL_Window creation error")
    /\ UNCHANGED <<objs, owned, stdlib, nrvo, view, event, sent, ex, running,
                   frames, polls, exitCode, hist>>

\* lines 195-199, and 281 when it fails; 1 stands for a non-null context.
\* glewInit's result is not looked at by main.
SDL_GL_CreateContext ==
    /\ pc = "SDL_GL_CreateContext"
    /\ \E gl_context \in {0, 1} :
        /\ trace' = Append(trace, <<"SDL_GL_CreateContext", gl_context>>)
        /\ IF gl_context # 0
           THEN pc' = "create_rectangle_buffer" /\ cerr' = cerr
           ELSE pc' = "SDL_DestroyWindow"
                /\ cerr' = Append(cerr, "SDL_GLContext creation error")
    /\ UNCHANGED <<objs, owned, stdlib, nrvo, view, event, sent, ex, running,
                   frames, polls, exitCode, hist>>

\* create_rectangle_buffer, lines 53-66
crb_glGenBuffers ==
    /\ pc = "create_rectangle_buffer"
    /\ Allocate("glGenBuffers", "glDeleteBuffers", crb_buffer,
                "buffer generation error", MainLocals, "crb_return")
    /\ UNCHANGED <<stdlib, nrvo, view, event, sent, running, frames, polls, cerr, hist>>

\* create_rectangle_buffer, lines 78-82
crb_return ==
    /\ pc = "crb_return"
    /\ Commit(Return("create_rectangle_buffer", "rectangle_buffer",
                     crb_buffer, <<>>,
                     Call("glBufferData", Raw(objs[crb_buffer]), Here)),
              "create_rectangle_vertex_array_object")
    /\ UNCHANGED <<owned, stdlib, nrvo, view, event, sent, ex, running, frames,
                   polls, cerr, hist>>

\* create_rectangle_vertex_array_object, lines 87-100
crvao_glGenVertexArrays ==
    /\ pc = "create_rectangle_vertex_array_object"
    /\ Allocate("glGenVertexArrays", "glDeleteVertexArrays", crvao_vertex_array_object,
                "vertex array object generation error", MainLocals, "crvao_return")
    /\ UNCHANGED <<stdlib, nrvo, view, event, sent, running, frames, polls, cerr, hist>>

\* create_rectangle_vertex_array_object, lines 102-109
crvao_return ==
    /\ pc = "crvao_return"
    /\ Commit(Return("create_rectangle_vertex_array_object",
                     "rectangle_vertex_array_object", crvao_vertex_array_object, <<>>,
                     Call("glVertexAttribPointer", Raw(objs["rectangle_buffer"]),
                          Call("glBindVertexArray",
                               Raw(objs[crvao_vertex_array_object]), Here))),
              "read_file")
    /\ UNCHANGED <<owned, stdlib, nrvo, view, event, sent, ex, running, frames,
                   polls, cerr, hist>>

\* the two shader source files of lines 207-208
ShaderFiles == {"res/mandelbrot_shader.vs", "res/mandelbrot_shader.fs"}

\* the files read_file was called on
FilesRead == {f \in ShaderFiles : \E i \in DOMAIN trace : trace[i][1] = f}

\* read_file, lines 172-179, for the arguments of create_shader_program; the
\* two calls are made in either order; 1 stands for a stream that opened
read_file ==
    /\ pc = "read_file"
    /\ \E file_path \in ShaderFiles \ FilesRead, stream \in {0, 1} :
        IF stream = 0
        THEN Throw("file reading error", MainLocals, Call(file_path, stream, Here))
        ELSE /\ Commit(Call(file_path, stream, Here),
                       IF FilesRead \cup {file_path} = ShaderFiles
                       THEN "create_shader_program" ELSE "read_file")
             /\ ex' = ex
    /\ UNCHANGED <<owned, stdlib, nrvo, view, event, sent, running, frames, polls,
                   cerr, hist>>

\* create_shader_program, lines 141-152
csp_glCreateProgram ==
    /\ pc = "create_shader_program"
    /\ Allocate("glCreateProgram", "glDeleteProgram", csp_shader_program,
                "shader program creation error", MainLocals, "vs_create_shader")
    /\ UNCHANGED <<stdlib, nrvo, view, event, sent, running, frames, polls, cerr, hist>>

\* the shader types of lines 154-155, the object each call initialises, and
\* where create_shader_program goes on
ShaderTypes == {"GL_VERTEX_SHADER", "GL_FRAGMENT_SHADER"}

ShaderOf(shader_type) ==
    IF shader_type = "GL_VERTEX_SHADER" THEN "vertex_shader" ELSE "fragment_shader"

PcCreate(shader_type) ==
    IF shader_type = "GL_VERTEX_SHADER" THEN "vs_create_shader" ELSE "fs_create_shader"

PcCompile(shader_type) ==
    IF shader_type = "GL_VERTEX_SHADER" THEN "vs_glCompileShader" ELSE "fs_glCompileShader"

PcAfter(shader_type) ==
    IF shader_type = "GL_VERTEX_SHADER" THEN "fs_create_shader" ELSE "glLinkProgram"

\* what unwinding destroys when an exception leaves create_shader
CsUnwind(shader_type) == <<cs_shader(ShaderOf(shader_type))>> \o CspUnwind

\* create_shader, lines 114-125
cs_glCreateShader ==
    \E shader_type \in ShaderTypes :
        /\ pc = PcCreate(shader_type)
        /\ Allocate("glCreateShader", "glDeleteShader", cs_shader(ShaderOf(shader_type)),
                    "shader creation error", CspUnwind, PcCompile(shader_type))
        /\ UNCHANGED <<stdlib, nrvo, view, event, sent, running, frames, polls,
                       cerr, hist>>

\* create_shader, lines 127-136; status 0 is GL_FALSE
cs_glCompileShader ==
    \E shader_type \in ShaderTypes, status \in {0, 1} :
        /\ pc = PcCompile(shader_type)
        /\ LET shader == cs_shader(ShaderOf(shader_type))
               compiled == Call("glCompileShader", status, Here)
           IN  IF status = 0
               THEN Throw("shader compilation error", CsUnwind(shader_type), compiled)
               ELSE /\ Commit(Return("create_shader", ShaderOf(shader_type), shader,
                                     <<>>, compiled),
                              PcAfter(shader_type))
                    /\ ex' = ex
        /\ UNCHANGED <<owned, stdlib, nrvo, view, event, sent, running, frames,
                       polls, cerr, hist>>

\* create_shader_program, lines 157-169; status 0 is GL_FALSE
csp_glLinkProgram ==
    /\ pc = "glLinkProgram"
    /\ \E status \in {0, 1} :
        LET linked == Call("glLinkProgram", status, Here)
        IN  IF status = 0
            THEN /\ Throw("failed to link shader program", CspUnwind, linked)
                 /\ running' = running
            ELSE /\ Commit(Return("create_shader_program", "shader_program",
                                  csp_shader_program, CspShaders,
                                  Call("glDetachShader", Raw(objs["fragment_shader"]),
                                       Call("glDetachShader", Raw(objs["vertex_shader"]),
                                            linked))),
                           "SDL_PollEvent")
                 /\ ex' = ex
                 /\ running' = TRUE
    /\ UNCHANGED <<owned, stdlib, nrvo, view, event, sent, frames, polls, cerr, hist>>


\* line 219 with the switch of lines 221-251: SDL_PollEvent fills `event` and
\* yields 1, and the event is handled, or yields 0 when the queue is empty,
\* which ends the inner loop.  SDL_QUIT clears `running`; SDL_KEYDOWN updates
\* the view; an event of any other type is dropped.
SDL_PollEvent ==
    /\ pc = "SDL_PollEvent"
    /\ frames < MaxFrames
    /\ \/ /\ polls < MaxPolls
          /\ \E e \in Events :
               /\ event' = e
               /\ running' = IF e.type = "SDL_QUIT" THEN FALSE ELSE running
               /\ view' = HandleEvent(view, e)
          /\ trace' = Append(trace, <<"SDL_PollEvent", 1>>)
          /\ polls' = polls + 1
          /\ pc' = pc
       \/ /\ trace' = Append(trace, <<"SDL_PollEvent", 0>>)
          /\ pc' = "glUseProgram"
          /\ UNCHANGED <<running, polls, view, event>>
    /\ UNCHANGED <<objs, owned, stdlib, nrvo, sent, ex, frames, cerr, exitCode, hist>>

\* lines 254-259: the program is bound and the view parameters are sent
SendParameters ==
    /\ pc = "glUseProgram"
    /\ trace' = trace \o <<<<"glUseProgram", Raw(objs["shader_program"])>>,
                           <<"glUniform", 0>>>>
    /\ sent' = Uniforms(view)
    /\ pc' = "glDrawArrays"
    /\ UNCHANGED <<objs, owned, stdlib, nrvo, view, event, ex, running, frames,
                   polls, cerr, exitCode, hist>>

\* lines 261-267: clear, bind the vertex array object, draw 6 vertices, unbind
Draw ==
    /\ pc = "glDrawArrays"
    /\ trace' = trace \o
            <<<<"glBindVertexArray", Raw(objs["rectangle_vertex_array_object"])>>,
              <<"glDrawArrays", 6>>>>
    /\ pc' = "SDL_GL_SwapWindow"
    /\ UNCHANGED <<objs, owned, stdlib, nrvo, view, event, sent, ex, running,
                   frames, polls, cerr, exitCode, hist>>

\* line 269
SDL_GL_SwapWindow ==
    /\ pc = "SDL_GL_SwapWindow"
    /\ trace' = Append(trace, <<"SDL_GL_SwapWindow", 0>>)
    /\ pc' = "SDL_Delay"
    /\ UNCHANGED <<objs, owned, stdlib, nrvo, view, event, sent, ex, running,
                   frames, polls, cerr, exitCode, hist>>

\* faulty variant: the loop goes on after SDL_QUIT
SDL_Delay_forever ==
    /\ pc = "SDL_Delay"
    /\ trace' = Append(trace, <<"SDL_Delay", 30>>)
    /\ frames' = frames + 1
    /\ pc' = "SDL_PollEvent"
    /\ UNCHANGED <<objs, owned, stdlib, nrvo, view, event, sent, ex, running,
                   polls, cerr, exitCode, hist>>

\* line 270 and the test of line 217
SDL_Delay ==
    /\ pc = "SDL_Delay"
    /\ trace' = Append(trace, <<"SDL_Delay", 30>>)
    /\ frames' = frames + 1
    /\ pc' = IF running THEN "SDL_PollEvent" ELSE "try_end"
    /\ UNCHANGED <<objs, owned, stdlib, nrvo, view, event, sent, ex, running,
                   polls, cerr, exitCode, hist>>

\* line 272: the try block ends and its GLobjects are destroyed
try_end ==
    /\ pc = "try_end"
    /\ Commit(DestroySeq(MainLocals, Here), "SDL_GL_DeleteContext")
    /\ UNCHANGED <<owned, stdlib, nrvo, view, event, sent, ex, running, frames,
                   polls, cerr, hist>>

\* lines 273-276
catch ==
    /\ pc = "catch"
    /\ cerr' = Append(cerr, ex)
    /\ pc' = "SDL_GL_DeleteContext"
    /\ UNCHANGED <<objs, trace, owned, stdlib, nrvo, view, event, sent, ex,
                   running, frames, polls, exitCode, hist>>

\* line 278
SDL_GL_DeleteContext ==
    /\ pc = "SDL_GL_DeleteContext"
    /\ trace' = Append(trace, <<"SDL_GL_DeleteContext", 1>>)
    /\ pc' = "SDL_DestroyWindow"
    /\ UNCHANGED <<objs, owned, stdlib, nrvo, view, event, sent, ex, running,
                   frames, polls, cerr, exitCode, hist>>

\* line 283
SDL_DestroyWindow ==
    /\ pc = "SDL_DestroyWindow"
    /\ trace' = Append(trace, <<"SDL_DestroyWindow", 1>>)
    /\ pc' = "SDL_Quit"
    /\ UNCHANGED <<objs, owned, stdlib, nrvo, view, event, sent, ex, running,
                   frames, polls, cerr, exitCode, hist>>

\* line 288
SDL_Quit ==
    /\ pc = "SDL_Quit"
    /\ trace' = Append(trace, <<"SDL_Quit", 0>>)
    /\ pc' = "return"
    /\ UNCHANGED <<objs, owned, stdlib, nrvo, view, event, sent, ex, running,
                   frames, polls, cerr, exitCode, hist>>

\* line 293
return ==
    /\ pc = "return"
    /\ exitCode' = 0
    /\ pc' = "done"
    /\ UNCHANGED <<objs, trace, owned, stdlib, nrvo, view, event, sent, ex,
                   running, frames, polls, cerr, hist>>

Next ==
    \/ SDL_Init \/ SDL_CreateWindow \/ SDL_GL_CreateContext
    \/ crb_glGenBuffers \/ crb_return
    \/ crvao_glGenVertexArrays \/ crvao_return
    \/ read_file
    \/ csp_glCreateProgram \/ cs_glCreateShader \/ cs_glCompileShader
    \/ csp_glLinkProgram
    \/ SDL_PollEvent \/ SendParameters \/ Draw \/ SDL_GL_SwapWindow \/ SDL_Delay
    \/ try_end \/ catch
    \/ SDL_GL_DeleteContext \/ SDL_DestroyWindow \/ SDL_Quit \/ return

Spec == Init /\ [][Next]_vars


(***************************************************************************)
(* Vocabulary of the claims about Spec.                                    *)
(***************************************************************************)
AllocApis == {"glGenBuffers", "glGenVertexArrays", "glCreateShader", "glCreateProgram"}

\* the pairs of a kind the factories handed to a GLobject
OwnedBy(deleters) == {e \in owned : e[1] \in deleters}

\* the positions of the trace
Pos == DOMAIN trace

\* the number of calls of the API `name`
Calls(name) == Cardinality({i \in Pos : trace[i][1] = name})

\* control is in the handler of line 273 or behind it
Handled == pc \in {"catch", "SDL_GL_DeleteContext", "SDL_DestroyWindow", "SDL_Quit",
                   "return", "done"}

\* control is inside create_shader_program
InCsp == pc \in {"vs_create_shader", "vs_glCompileShader", "fs_create_shader",
                 "fs_glCompileShader", "glLinkProgram"}

\* the objects the factories' results initialise
FactoryResults ==
    {"rectangle_buffer", "rectangle_vertex_array_object", "vertex_shader",
     "fragment_shader", "shader_program"}

\* the process has ended
Terminated == pc \in {"done", "aborted"}

(***************************************************************************)
(* C4: each of the four factories raises an error when the allocation      *)
(* yields the zero handle: no GLobject is ever constructed for handle 0,   *)
(* no object a factory returned exposes 0, the factory's error is what     *)
(* reaches the handler, no further allocation is attempted, and every      *)
(* release callback invoked afterwards is for a handle that was acquired   *)
(* (never for the failed allocation).                                      *)
(***************************************************************************)
C4_FactoriesRejectZeroHandle ==
    /\ \A e \in owned : e[2] # 0
    /\ \A s \in FactoryResults : objs[s].st = "alive" => Raw(objs[s]) # 0
    /\ \A i \in Pos :
        (trace[i][1] \in AllocApis /\ trace[i][2] = 0) =>
            /\ Handled
            /\ ex = CASE trace[i][1] = "glGenBuffers" -> "buffer generation error"
                      [] trace[i][1] = "glGenVertexArrays" ->
                             "vertex array object generation error"
                      [] trace[i][1] = "glCreateShader" -> "shader creation error"
                      [] OTHER -> "shader program creation error"
            /\ \A j \in Pos : j > i =>
                /\ trace[j][1] \notin AllocApis
                /\ trace[j][1] \in Deleters => trace[j] \in owned

C4_Witness ==
    /\ pc = "catch"
    /\ \E i \in Pos : trace[i] = <<"glCreateShader", 0>>
    /\ <<"glDeleteShader", 1>> \in owned

(***************************************************************************)
(* C5: every vertex or fragment shader object create_shader_program        *)
(* created is released exactly once before the call returns or raises:     *)
(* never twice, and exactly once in every state in which the call has      *)
(* returned or raised.  (A run that std::terminate ends inside the call    *)
(* neither returns nor raises; that is C1's failure.)                      *)
(***************************************************************************)
C5_ShadersReleasedByCsp ==
    /\ \A e \in OwnedBy({"glDeleteShader"}) : Count(trace, e) <= 1
    /\ (~InCsp /\ ~Aborted)
       => \A e \in OwnedBy({"glDeleteShader"}) : Count(trace, e) = 1

C5_Witness ==
    /\ pc = "catch"
    /\ ex = "failed to link shader program"
    /\ Cardinality(OwnedBy({"glDeleteShader"})) = 2

(***************************************************************************)
(* C6: no partial resource escapes a failed shader build.  A failed        *)
(* compilation raises "shader compilation error"; once create_shader or    *)
(* create_shader_program has raised, every shader and program handle that  *)
(* was allocated has been released exactly once, main's shader_program     *)
(* holds no handle and the program was never used.                         *)
(***************************************************************************)
C6_NoPartialShaderBuild ==
    /\ (\E i \in Pos : trace[i] = <<"glCompileShader", 0>>)
       => ex = "shader compilation error"
    /\ (\E i \in Pos : trace[i] = <<"glLinkProgram", 0>>)
       => ex = "failed to link shader program"
    /\ ex \in {"shader program creation error", "shader creation error",
               "shader compilation error", "failed to link shader program"}
       => /\ \A e \in OwnedBy({"glDeleteShader", "glDeleteProgram"}) :
                Count(trace, e) = 1
          /\ objs["shader_program"].st # "alive"
          /\ Calls("glUseProgram") = 0

C6_Witness ==
    /\ pc = "catch"
    /\ ex = "shader compilation error"
    /\ Cardinality(OwnedBy({"glDeleteShader"})) = 2
    /\ OwnedBy({"glDeleteProgram"}) # {}


(***************************************************************************)
(* C7: initialisation acquires the video subsystem, the window and the     *)
(* rendering context in that order; after a failed step no later step is   *)
(* attempted; the releases made are those of the steps that succeeded, in  *)
(* reverse order, all of them once main returns, and none precedes an      *)
(* acquisition; nothing that was not acquired is released.                 *)
(***************************************************************************)
AcquireOrder == <<"SDL_Init", "SDL_CreateWindow", "SDL_GL_CreateContext">>

IsAcquire(e) == e[1] \in {"SDL_Init", "SDL_CreateWindow", "SDL_GL_CreateContext"}

IsSdlRelease(e) == e[1] \in {"SDL_Quit", "SDL_DestroyWindow", "SDL_GL_DeleteContext"}

\* the step succeeded: SDL_Init yields a value >= 0, the others a non-null pointer
Succeeded(e) == IF e[1] = "SDL_Init" THEN e[2] >= 0 ELSE e[2] # 0

\* the call that releases what the step `name` acquired
ReleaseOf(name) ==
    CASE name = "SDL_Init" -> "SDL_Quit"
      [] name = "SDL_CreateWindow" -> "SDL_DestroyWindow"
      [] OTHER -> "SDL_GL_DeleteContext"

Attempts == SelectSeq(trace, IsAcquire)

Acquired == SelectSeq(Attempts, Succeeded)

SdlReleases == SelectSeq(trace, IsSdlRelease)

\* the releases owed: those of the steps that succeeded, last acquired first
OwedReleases ==
    [k \in 1..Len(Acquired) |-> ReleaseOf(Acquired[Len(Acquired) + 1 - k][1])]

C7_InitShortCircuitsAndUnwinds ==
    /\ Len(Attempts) <= Len(AcquireOrder)
    /\ \A k \in DOMAIN Attempts :
        /\ Attempts[k][1] = AcquireOrder[k]
        /\ k < Len(Attempts) => Succeeded(Attempts[k])
    /\ Len(SdlReleases) <= Len(OwedReleases)
    /\ \A k \in DOMAIN SdlReleases : SdlReleases[k][1] = OwedReleases[k]
    /\ \A i \in Pos, j \in Pos : (IsSdlRelease(trace[i]) /\ IsAcquire(trace[j])) => j < i
    /\ pc = "done" => Len(SdlReleases) = Len(OwedReleases)

C7_Witness ==
    /\ pc = "done"
    /\ \E i \in Pos : trace[i] = <<"SDL_GL_CreateContext", 0>>
    /\ Len(SdlReleases) = 2

(***************************************************************************)
(* C8: when every initialisation step succeeds the loop starts, a polled   *)
(* quit event ends it and the program terminates, and at termination every *)
(* acquired GPU handle was released exactly once and the rendering         *)
(* context, the window and the video subsystem were released.              *)
(***************************************************************************)
\* no call made so far reported a failure
NoStepFailed ==
    \A i \in Pos :
        (IsAcquire(trace[i]) \/ trace[i][1] \in AllocApis \cup ShaderFiles
                                               \cup {"glCompileShader", "glLinkProgram"})
        => Succeeded(trace[i])

C8_CleanRunReleasesEverything ==
    (Terminated /\ NoStepFailed /\ Len(Acquired) = Len(AcquireOrder)) =>
        /\ Calls("glDrawArrays") >= 1
        /\ ~running
        /\ \A e \in owned : Count(trace, e) = 1
        /\ Len(SdlReleases) = Len(OwedReleases)

(***************************************************************************)
(* C9: a failure raised by a factory or by read_file reaches the one       *)
(* handler: exactly one message is logged (the exception's), the loop body *)
(* never runs, no call is retried, every GPU handle acquired before the    *)
(* failure has been released exactly once when the handler is entered, and *)
(* the context, the window and the video subsystem are released after it.  *)
(***************************************************************************)
C9_FailureCaughtOnce ==
    ex # "" =>
        /\ Handled
        /\ cerr = IF pc = "catch" THEN <<>> ELSE <<ex>>
        /\ frames = 0 /\ ~running
        /\ Calls("glUseProgram") = 0 /\ Calls("glDrawArrays") = 0
        /\ \A api \in AllocApis \ {"glCreateShader"} : Calls(api) <= 1
        /\ Calls("glCreateShader") <= 2
        /\ \A f \in ShaderFiles : Calls(f) <= 1
        /\ \A e \in owned : Count(trace, e) = 1
        /\ \A i \in Pos, j \in Pos :
            (trace[i][1] \in Deleters /\ IsSdlRelease(trace[j])) => i < j
        /\ pc \in {"return", "done"} =>
            <<SdlReleases[1][1], SdlReleases[2][1], SdlReleases[3][1]>>
                = <<"SDL_GL_DeleteContext", "SDL_DestroyWindow", "SDL_Quit">>

C9_Witness ==
    /\ pc = "done"
    /\ ex = "file reading error"
    /\ Cardinality(owned) = 2

(***************************************************************************)
(* C10: the process exit code is 0 on every run.                           *)
(***************************************************************************)
C10_ExitCodeAlwaysZero == Terminated => exitCode = 0

(***************************************************************************)
(* C11: after any sequence of key events max_iterations is never negative  *)
(* (it stays a value of 32 unsigned bits), and an E key-down at 0 leaves   *)
(* it at 0.                                                                *)
(***************************************************************************)
C11_CountNeverNegative ==
    /\ view.max_iterations.hi \in 0..(Half - 1)
    /\ view.max_iterations.lo \in 0..(Half - 1)
    /\ (event.scancode = "SDL_SCANCODE_E" /\ hist.max_iterations = Unsigned(0, 0))
       => view.max_iterations = Unsigned(0, 0)

\* E has been pressed at 0, after E held down took the count from 30 to 0
C11_Witness ==
    /\ event.scancode = "SDL_SCANCODE_E"
    /\ hist.max_iterations = Unsigned(0, 0)
    /\ view.max_iterations = Unsigned(0, 0)
    /\ frames >= 30

(***************************************************************************)
(* C12: on a key-down, with s the scale before the event, W and S change y *)
(* by +0.1/s and -0.1/s, A and D change x by -0.1/s and +0.1/s, Z and X    *)
(* change scale by +0.1*s and -0.1*s, in float arithmetic; each of these   *)
(* keys changes only its own field.                                        *)
(***************************************************************************)
C12_KeysChangeTheirOwnField ==
    LET s == hist.scale
        step == Div(Literal_0_1F, s)
        zoom == Mul(Literal_0_1F, s)
        k == event.scancode
    IN  /\ k = "SDL_SCANCODE_W" => view = [hist EXCEPT !.y = Add(hist.y, step)]
        /\ k = "SDL_SCANCODE_S" => view = [hist EXCEPT !.y = Sub(hist.y, step)]
        /\ k = "SDL_SCANCODE_A" => view = [hist EXCEPT !.x = Sub(hist.x, step)]
        /\ k = "SDL_SCANCODE_D" => view = [hist EXCEPT !.x = Add(hist.x, step)]
        /\ k = "SDL_SCANCODE_Z" => view = [hist EXCEPT !.scale = Add(s, zoom)]
        /\ k = "SDL_SCANCODE_X" => view = [hist EXCEPT !.scale = Sub(s, zoom)]

\* A has been pressed in a zoomed view and x has moved to the left by the
\* step of that zoom, not by the initial one
C12_Witness ==
    /\ event.scancode = "SDL_SCANCODE_A"
    /\ hist.scale # InitialView.scale
    /\ view.x = Sub(hist.x, Div(Literal_0_1F, hist.scale))
    /\ view.x # Sub(hist.x, Literal_0_1F)
    /\ view.x.sign = 1

(***************************************************************************)
(* C13: the view state changes only in the step that handles the key-down  *)
(* of one of the eight defined keys.  The key-down of any other key, an    *)
(* event of any other type (the quit request included), and sending the    *)
(* parameters, drawing, presenting and the delay leave x, y, scale and     *)
(* max_iterations as they were.                                            *)
(***************************************************************************)
C13_ViewChangesOnlyOnDefinedKeys ==
    [][view' # view =>
          /\ pc = "SDL_PollEvent"
          /\ polls' = polls + 1
          /\ event'.type = "SDL_KEYDOWN"
          /\ event'.scancode \in DefinedKeys]_vars

\* a frame has been sent, drawn and presented with a view that a key-down
\* changed, and the view is still the one sent
C13_Witness ==
    /\ view # InitialView
    /\ event.type = "SDL_KEYDOWN"
    /\ pc = "SDL_Delay"
    /\ sent = Uniforms(view)

(***************************************************************************)
(* C14: each iteration of the loop polls and handles events until the      *)
(* queue is empty, then sends the parameters, draws once, presents and     *)
(* delays, in this order; the parameters sent are those of the view state  *)
(* after all the events of the iteration; after a quit event has been      *)
(* handled no further iteration starts.                                    *)
(***************************************************************************)
\* the calls the loop makes, in order
LoopCalls ==
    LET first == {i \in Pos : trace[i][1] = "SDL_PollEvent"}
    IN  IF first = {} THEN <<>>
        ELSE LET from == CHOOSE j \in first : \A k \in first : j <= k
             IN  SelectSeq(SubSeq(trace, from, Len(trace)),
                           LAMBDA c : c[1] \in {"SDL_PollEvent", "glUseProgram",
                                                "glUniform", "glBindVertexArray",
                                                "glDrawArrays", "SDL_GL_SwapWindow",
                                                "SDL_Delay"})

\* the call that must follow call c within the loop
Follows(c, d) ==
    CASE c = <<"SDL_PollEvent", 1>> -> d[1] = "SDL_PollEvent"
      [] c = <<"SDL_PollEvent", 0>> -> d[1] = "glUseProgram"
      [] c[1] = "glUseProgram" -> d[1] = "glUniform"
      [] c[1] = "glUniform" -> d[1] = "glBindVertexArray"
      [] c[1] = "glBindVertexArray" -> d[1] = "glDrawArrays"
      [] c[1] = "glDrawArrays" -> d[1] = "SDL_GL_SwapWindow"
      [] c[1] = "SDL_GL_SwapWindow" -> d[1] = "SDL_Delay"
      [] c[1] = "SDL_Delay" -> d[1] = "SDL_PollEvent"

IsAcquisition(c) ==
    \/ c[1] \in AllocApis /\ c[2] # 0
    \/ IsAcquire(c) /\ Succeeded(c)

\* the call releases a resource
IsRelease(c) ==
    \/ c[1] \in Deleters /\ c[2] # 0
    \/ IsSdlRelease(c)

\* the call that releases what the call c acquired
Owes(c) ==
    CASE c[1] = "glGenBuffers" -> <<"glDeleteBuffers", c[2]>>
      [] c[1] = "glGenVertexArrays" -> <<"glDeleteVertexArrays", c[2]>>
      [] c[1] = "glCreateShader" -> <<"glDeleteShader", c[2]>>
      [] c[1] = "glCreateProgram" -> <<"glDeleteProgram", c[2]>>
      [] c[1] = "SDL_Init" -> <<"SDL_Quit", 0>>
      [] c[1] = "SDL_CreateWindow" -> <<"SDL_DestroyWindow", c[2]>>
      [] c[1] = "SDL_GL_CreateContext" -> <<"SDL_GL_DeleteContext", c[2]>>

Acquisitions == SelectSeq(trace, IsAcquisition)

Releases == SelectSeq(trace, IsRelease)

\* the releases of a run in which every step succeeded
CleanRunReleases ==
    <<"glDeleteShader", "glDeleteShader", "glDeleteProgram", "glDeleteVertexArrays",
      "glDeleteBuffers", "SDL_GL_DeleteContext", "SDL_DestroyWindow", "SDL_Quit">>

C15_ReleasedInReverseOrder ==
    LET acquired == Acquisitions
        released == Releases
        n == Len(acquired)
    IN  /\ Len(released) <= n
        /\ \A k \in 1..Len(released) : released[k] = Owes(acquired[n + 1 - k])
        /\ pc = "done" => Len(released) = n
        /\ Len(released) = Len(CleanRunReleases)
           => [k \in 1..Len(released) |-> released[k][1]] = CleanRunReleases
        /\ \A k \in 1..Len(released) :
             released[k][1] = "SDL_GL_DeleteContext"
             => \A l \in (k + 1)..Len(released) : released[l][1] \notin Deleters
        /\ \A i \in Pos :
             (trace[i][1] = "glDeleteShader" /\ trace[i][2] # 0)
             => \A j \in 1..(i - 1) :
                    trace[j][1] \notin {"glDeleteProgram", "SDL_PollEvent"}

\* a run through the loop has returned and its eight resources are released
C15_Witness ==
    /\ pc = "done"
    /\ frames > 0
    /\ Len(Releases) = Len(CleanRunReleases)

(***************************************************************************)
(* C16: in every state in which the loop issues a graphics call (use the   *)
(* program, set the parameters, bind the vertex array object, draw,        *)
(* present) the shader program, the vertex array object, the buffer, the   *)
(* context and the window have all been acquired and none of them has      *)
(* been released; no handle is ever used after its release.                *)
(***************************************************************************)
\* the loop is about to issue a graphics call
AtGraphicsCall == pc \in {"glUseProgram", "glDrawArrays", "SDL_GL_SwapWindow"}

\* the object of main in slot s holds a handle a factory acquired, and the
\* handle has not been released
HoldsLiveHandle(s) ==
    /\ objs[s].st = "alive"
    /\ Raw(objs[s]) # 0
    /\ <<objs[s].deleter, Raw(objs[s])>> \in owned
    /\ Count(trace, <<objs[s].deleter, Raw(objs[s])>>) = 0

\* the calls that use a handle, with the call that releases such a handle
UseOf ==
    [glBufferData |-> "glDeleteBuffers", glVertexAttribPointer |-> "glDeleteBuffers",
     glBindVertexArray |-> "glDeleteVertexArrays", glDetachShader |-> "glDeleteShader",
     glUseProgram |-> "glDeleteProgram"]

C16_NoUseAfterRelease ==
    /\ AtGraphicsCall =>
         /\ \A s \in {"shader_program", "rectangle_vertex_array_object",
                      "rectangle_buffer"} : HoldsLiveHandle(s)
         /\ \E i \in Pos : trace[i][1] = "SDL_CreateWindow" /\ trace[i][2] # 0
         /\ \E i \in Pos : trace[i][1] = "SDL_GL_CreateContext" /\ trace[i][2] # 0
         /\ Calls("SDL_GL_DeleteContext") = 0
         /\ Calls("SDL_DestroyWindow") = 0
         /\ Calls("SDL_Quit") = 0
    /\ \A i \in Pos :
         trace[i][1] \in DOMAIN UseOf =>
             /\ <<UseOf[trace[i][1]], trace[i][2]>> \in owned
             /\ \A j \in 1..(i - 1) : trace[j] # <<UseOf[trace[i][1]], trace[i][2]>>
    /\ \A i \in Pos :
         trace[i][1] \in {"glUseProgram", "glBindVertexArray", "glDrawArrays",
                          "SDL_GL_SwapWindow"}
         => \A j \in 1..(i - 1) : ~IsSdlRelease(trace[j])

\* the loop is about to draw its second frame, in a build in which no
\* factory's return is elided
C16_Witness ==
    /\ pc = "glDrawArrays"
    /\ frames = 1
    /\ \A f \in Factories : ~nrvo[f]
    /\ \A s \in {"shader_program", "rectangle_vertex_array_object",
                 "rectangle_buffer"} : HoldsLiveHandle(s)

(***************************************************************************)
(* C17: starting from scale = 1, after any sequence of Z and X key-downs   *)
(* the scale is strictly positive (never zero), so that the pan step       *)
(* 0.1 / scale, and with it the view bounds sent each frame, is a number.  *)
(***************************************************************************)
C17_ScaleStrictlyPositive ==
    /\ IsPositive(view.scale)
    /\ Div(Literal_0_1F, view.scale) # NaN

(***************************************************************************)
(* C18: for every value the 32-bit unsigned max_iterations can reach, an R *)
(* key-down yields a count exactly one greater than before the event, and  *)
(* an E key-down at a positive count yields a count exactly one less.      *)
(***************************************************************************)
\* b = a + 1 as numbers
IsSuccessor(a, b) ==
    \/ a.lo < Half - 1 /\ b = Unsigned(a.hi, a.lo + 1)
    \/ a.lo = Half - 1 /\ a.hi < Half - 1 /\ b = Unsigned(a.hi + 1, 0)

C18_ExactlyOneGreater ==
    /\ event.scancode = "SDL_SCANCODE_R"
       => IsSuccessor(hist.max_iterations, view.max_iterations)
    /\ (event.scancode = "SDL_SCANCODE_E" /\ GreaterThanZero(hist.max_iterations))
       => IsSuccessor(view.max_iterations, hist.max_iterations)

====
